---- MODULE Spec2Model ----
(***************************************************************************)
(* Model of the AM2315 south plugin                                         *)
(* (python/foglamp/plugins/south/am2315/am2315.py).                         *)
(*                                                                         *)
(* Python objects live on a heap: a dict is a heap cell addressed by a     *)
(* reference, so that aliasing and copy.deepcopy are visible.  A Python    *)
(* str is a sequence of one-character strings, so that int(s, 16), hex(n)  *)
(* and str.replace are computed character by character.  The SMBus         *)
(* transport is an external collaborator: what each of its calls answers   *)
(* (success, failure, the bytes read) is chosen by the environment.        *)
(***************************************************************************)
EXTENDS Integers, Sequences, FiniteSets, TLC

VARIABLES
    heap,          \* the dicts of the Python heap
    buses,         \* the SMBus transports opened so far, "open" or "closed"
    config,        \* the category the host passed to plugin_init
    config_given,  \* the content of that category when the host built it
    handle,        \* the handle the host holds (None before plugin_init)
    old_handle,    \* the handle passed to the last plugin_reconfigure
    new_config,    \* the category passed to the last plugin_reconfigure
    new_config_given, \* the content of that category when the host built it
    state,         \* the host's view of the session
    result,        \* what the last call handed back
    env,           \* the bus answers, clock and uuid of the last poll
    reconfs        \* number of reconfigurations so far

vars == <<heap, buses, config, config_given, handle, old_handle, new_config,
          new_config_given, state, result, env, reconfs>>

(***************************************************************************)
(* Bounds of the model.                                                    *)
(***************************************************************************)
MaxReconf == 1

(***************************************************************************)
(* Python values.  Every value has the same shape so that any two can be   *)
(* compared: t is the type, s the characters of a str, n a reference or a  *)
(* bus identifier.                                                         *)
(***************************************************************************)
PyStr(s) == [t |-> "str", s |-> s, n |-> 0]
PyRef(r) == [t |-> "ref", s |-> <<>>, n |-> r]
PyBus(b) == [t |-> "bus", s |-> <<>>, n |-> b]
None == 0

\* d[k] = v on a dict d (a function from keys to values)
SetItem(d, k, v) == [x \in (DOMAIN d) \cup {k} |-> IF x = k THEN v ELSE d[x]]

\* the dict literal {k: v}
Dict1(k, v) == [x \in {k} |-> v]

(***************************************************************************)
(* Python str operations, character by character.                          *)
(***************************************************************************)
HexDigits == <<"0", "1", "2", "3", "4", "5", "6", "7", "8", "9",
               "a", "b", "c", "d", "e", "f">>
UpperHex == <<"A", "B", "C", "D", "E", "F">>

\* value of a hexadecimal digit character, -1 when c is none
HexDigitValue(c) ==
    IF \E i \in 1..16 : HexDigits[i] = c
    THEN (CHOOSE i \in 1..16 : HexDigits[i] = c) - 1
    ELSE IF \E i \in 1..6 : UpperHex[i] = c
         THEN (CHOOSE i \in 1..6 : UpperHex[i] = c) + 9
         ELSE -1

\* the digits of s after an optional 0x / 0X prefix
StripHexPrefix(s) ==
    IF Len(s) >= 2 /\ s[1] = "0" /\ s[2] \in {"x", "X"}
    THEN SubSeq(s, 3, Len(s))
    ELSE s

RECURSIVE HexDigitsValue(_, _)
HexDigitsValue(ds, acc) ==
    IF ds = <<>> THEN acc
    ELSE HexDigitsValue(Tail(ds), acc * 16 + HexDigitValue(Head(ds)))

\* int(s, 16) raises ValueError
IntBase16Raises(s) ==
    LET ds == StripHexPrefix(s)
    IN  ds = <<>> \/ \E i \in 1..Len(ds) : HexDigitValue(ds[i]) < 0

\* int(s, 16), for a string it accepts
IntBase16(s) == HexDigitsValue(StripHexPrefix(s), 0)

RECURSIVE HexDigitsOf(_)
HexDigitsOf(n) ==
    IF n < 16 THEN <<HexDigits[n + 1]>>
    ELSE Append(HexDigitsOf(n \div 16), HexDigits[(n % 16) + 1])

\* hex(n) for n >= 0: a str, "0x" and lower-case digits
PyHex(n) == <<"0", "x">> \o HexDigitsOf(n)

\* s.startswith(p)
StartsWith(s, p) == Len(s) >= Len(p) /\ SubSeq(s, 1, Len(p)) = p

\* s.replace(old, new): every non-overlapping occurrence, left to right,
\* the replacement text is not scanned again
RECURSIVE PyReplace(_, _, _)
PyReplace(s, old, new) ==
    IF s = <<>> THEN <<>>
    ELSE IF StartsWith(s, old)
         THEN new \o PyReplace(SubSeq(s, Len(old) + 1, Len(s)), old, new)
         ELSE <<Head(s)>> \o PyReplace(Tail(s), old, new)

(***************************************************************************)
(* The heap: a sequence of dicts; a reference is an index into it.          *)
(***************************************************************************)
RefsOf(d) == {d[k].n : k \in {x \in DOMAIN d : d[x].t = "ref"}}

RECURSIVE ReachFrom(_, _, _)
ReachFrom(h, frontier, seen) ==
    IF frontier = {} THEN seen
    ELSE LET new == (UNION {RefsOf(h[r]) : r \in frontier}) \ seen
         IN  ReachFrom(h, new, seen \cup new)

\* the cells reachable from reference r (r included)
Reach(h, r) == IF r = None THEN {} ELSE ReachFrom(h, {r}, {r})

\* the content reachable from r, as the set of <<path of keys, leaf value>>
RECURSIVE Flat(_, _, _)
Flat(h, r, prefix) ==
    UNION { IF h[r][k].t = "ref"
            THEN Flat(h, h[r][k].n, Append(prefix, k))
            ELSE {<<Append(prefix, k), h[r][k]>>} : k \in DOMAIN h[r] }

\* copy.deepcopy(r): every cell reachable from r is copied into a fresh
\* cell, references between the copies follow the originals; str, int and
\* the other leaves are shared
DeepCopy(h, r) ==
    LET R == Reach(h, r)
        rank(x) == Cardinality({y \in R : y < x})
        m(x) == Len(h) + rank(x) + 1
        relabel(d) == [k \in DOMAIN d |->
                          IF d[k].t = "ref" THEN PyRef(m(d[k].n)) ELSE d[k]]
        src(i) == CHOOSE x \in R : rank(x) = i - 1
        fresh == [i \in 1..Cardinality(R) |-> relabel(h[src(i)])]
    IN  [heap |-> h \o fresh, ref |-> m(r)]

(***************************************************************************)
(* Configuration categories the host passes in.  An item is a dict with a  *)
(* 'value' entry (the entries description, type, default and order of an   *)
(* item are never read by the plugin and are left out).                    *)
(***************************************************************************)
DefaultAssetName == <<"a", "m", "2", "3", "1", "5", "/", "%", "M", "/">>
DefaultI2cAddress == <<"0", "x", "5", "C">>

\* <<assetName, i2cAddress>> of the categories plugin_init is given
InitCategories ==
    { <<DefaultAssetName, DefaultI2cAddress>>,
      <<DefaultAssetName, <<"5", "c">>>>,
      <<DefaultAssetName, <<"0", "x", "G">>>>,
      <<<<"%", "M", "%", "M">>, DefaultI2cAddress>>,
      <<<<"%", "d", "/", "%", "%", "M", "M">>, <<"5", "c">>>>,
      <<<<"a", "m", "%", "m">>, DefaultI2cAddress>> }

\* <<assetName, i2cAddress, restart>> of the categories plugin_reconfigure
\* is given; restart = <<>> is a category without a 'restart' entry
NewCategories ==
    { <<DefaultAssetName, DefaultI2cAddress, <<>>>>,
      <<<<"%", "M", "%", "M">>, <<"5", "c">>, <<"y", "e", "s">>>>,
      <<DefaultAssetName, <<"0", "x", "G">>, <<>>>> }

\* a category as the host builds it: three fresh cells, the last one the
\* category itself; rs = <<>> is a category without a 'restart' entry
NewCategory(h, name, addr, rs) ==
    LET a == Len(h) + 1
        b == Len(h) + 2
        items == [k \in {"assetName", "i2cAddress"} |->
                     IF k = "assetName" THEN PyRef(a) ELSE PyRef(b)]
        top == IF rs = <<>> THEN items ELSE SetItem(items, "restart", PyStr(rs))
    IN  [heap |-> h \o <<Dict1("value", PyStr(name)),
                         Dict1("value", PyStr(addr)), top>>,
         ref |-> Len(h) + 3]

(***************************************************************************)
(* What an operation hands back to the host.                               *)
(***************************************************************************)
\* n / 10 for an int n: the decimal with one fractional digit
TrueDiv10(n) == [whole |-> n \div 10, tenth |-> n % 10]

NoReading == [asset |-> <<>>, timestamp |-> "", key |-> "",
              temperature |-> [whole |-> -1, tenth |-> 0],
              humidity |-> [whole |-> -1, tenth |-> 0]]

\* op: the operation; raised: the exception that left it ("" none) and
\* cause, the exception it wraps; ret: the handle returned; returned: the
\* kind of value returned; data: the reading returned; log: the bus calls
\* made; opened: the number of transports the call tried to open;
\* crc_checked: whether the call computed and compared the checksum, and
\* calc_crc, crc: the two values it compared (-1 when it did not)
Outcome(op, raised, cause, ret, returned, data, log) ==
    [op |-> op, raised |-> raised, cause |-> cause, ret |-> ret,
     returned |-> returned, data |-> data, log |-> log, opened |-> 0,
     crc_checked |-> FALSE, calc_crc |-> -1, crc |-> -1]

NoOutcome == Outcome("", "", "", None, "", NoReading, <<>>)

(***************************************************************************)
(* plugin_init(config)                                                     *)
(***************************************************************************)
plugin_init_NoCopy(h, bs, cfg, openOk) ==
    IF openOk
    THEN [heap |-> [h EXCEPT ![cfg] = SetItem(@, "bus", PyBus(Len(bs) + 1))],
          buses |-> Append(bs, "open"),
          out |-> [Outcome("init", "", "", cfg, "handle",
                           NoReading, <<>>) EXCEPT !.opened = 1]]
    ELSE [heap |-> h,
          buses |-> bs,
          out |-> [Outcome("init", "OSError", "", None, "",
                           NoReading, <<>>) EXCEPT !.opened = 1]]

\* h: heap, bs: the transports opened so far, cfg: the caller's category,
\* openOk: whether smbus.SMBus(1) succeeds
plugin_init(h, bs, cfg, openOk) ==
    LET data == DeepCopy(h, cfg)
        bus == Len(bs) + 1
    IN  IF openOk
        THEN [heap |-> [data.heap EXCEPT
                           ![data.ref] = SetItem(@, "bus", PyBus(bus))],
              buses |-> Append(bs, "open"),
              out |-> [Outcome("init", "", "", data.ref, "handle",
                               NoReading, <<>>) EXCEPT !.opened = 1]]
        ELSE \* the exception leaves plugin_init: the copy is unreachable
             \* and is collected
             [heap |-> h,
              buses |-> bs,
              out |-> [Outcome("init", "OSError", "", None, "",
                               NoReading, <<>>) EXCEPT !.opened = 1]]

(***************************************************************************)
(* The answers of the sensor and of the bus during one poll.               *)
(***************************************************************************)
\* frames of the sensor: function code, length, humidity, temperature and
\* the CRC the sensor appends (low byte, high byte)
SensorFrames == { <<3, 4, 1, 2, 1, 8, 81, 130>>,
                  <<3, 4, 1, 2, 128, 10, 176, 19>>,
                  <<3, 4, 0, 0, 1, 8, 241, 190>>,
                  <<3, 4, 0, 0, 128, 10, 16, 47>>,
                  <<3, 4, 255, 255, 1, 8, 241, 154>>,
                  <<3, 4, 255, 255, 128, 10, 16, 11>>,
                  <<0, 0, 1, 2, 1, 8, 160, 113>>,
                  <<3, 8, 1, 2, 1, 8, 65, 131>> }

\* the same frames with the checksum damaged on the wire
DamagedFrames == { [f EXCEPT ![7] = (@ + 1) % 256] : f \in SensorFrames }
                 \cup { [f EXCEPT ![8] = 255 - @] : f \in SensorFrames }

\* responses cut short
ShortFrames == { SubSeq(<<3, 4, 1, 2, 1, 8, 81, 130>>, 1, n) : n \in {0, 3, 5, 7} }

Responses == SensorFrames \cup DamagedFrames \cup ShortFrames

Timestamps == {"t1"}
Uuids == {"u1", "u2"}

\* one poll's environment: whether the wake-up write, the data-request
\* write and the read succeed, the bytes read, the clock and the uuid4 drawn.
\* An answer that is never asked for has one fixed value.
Envs ==
    { e \in [wake : BOOLEAN, req : BOOLEAN, read : BOOLEAN, resp : Responses,
             now : Timestamps, uuid : Uuids] :
        /\ (~e.req => ~e.read)
        /\ (~e.read => e.resp = <<>>)
        /\ (~(e.read /\ Len(e.resp) >= 8) => e.uuid = "u1") }

NoEnv == [wake |-> FALSE, req |-> FALSE, read |-> FALSE, resp |-> <<>>,
          now |-> "t1", uuid |-> "u1"]

(***************************************************************************)
(* plugin_poll(handle)                                                     *)
(***************************************************************************)
start_add == 0
function_code == 3
register_number == 4
response_bytes == 8
attempt_threshold == 50

\* a ^ b on non-negative ints
RECURSIVE BitXor(_, _)
BitXor(a, b) ==
    IF a = 0 THEN b
    ELSE IF b = 0 THEN a
    ELSE (((a % 2) + (b % 2)) % 2) + 2 * BitXor(a \div 2, b \div 2)

\* x with the bit of weight w (a power of two) inverted
FlipBit(x, w) == IF (x \div w) % 2 = 1 THEN x - w ELSE x + w

XorA001_Poly8005(calc_crc) == FlipBit(FlipBit(FlipBit(calc_crc, 1), 4), 32768)

\* calc_crc ^ 0xA001: 0xA001 has the bits of weight 2^15, 2^13 and 2^0
XorA001(calc_crc) == FlipBit(FlipBit(FlipBit(calc_crc, 1), 8192), 32768)

\* the body of `for i in range(1,9)`, n iterations left
RECURSIVE CrcShift(_, _)
CrcShift(calc_crc, n) ==
    IF n = 0 THEN calc_crc
    ELSE IF calc_crc % 2 = 1
         THEN CrcShift(XorA001(calc_crc \div 2), n - 1)
         ELSE CrcShift(calc_crc \div 2, n - 1)

\* the body of `for byte in sensor_response[0:6]`
RECURSIVE CrcLoop(_, _)
CrcLoop(calc_crc, bytes) ==
    IF bytes = <<>> THEN calc_crc
    ELSE CrcLoop(CrcShift(BitXor(calc_crc, Head(bytes)), 8), Tail(bytes))

Slice06_FirstFive(sensor_response) ==
    SubSeq(sensor_response, 1, IF Len(sensor_response) < 5
                               THEN Len(sensor_response) ELSE 5)

\* sensor_response[0:6]: a slice never raises
Slice06(sensor_response) ==
    SubSeq(sensor_response, 1, IF Len(sensor_response) < 6
                               THEN Len(sensor_response) ELSE 6)

\* calc_crc after the loops
CalcCrc(sensor_response) == CrcLoop(65535, Slice06(sensor_response))

\* crc = sensor_response[7] * 256 + sensor_response[6]
ReceivedCrc(sensor_response) == sensor_response[8] * 256 + sensor_response[7]

\* humidity = (sensor_response[2] * 256 + sensor_response[3])/10
Humidity_FromTemperatureBytes(sensor_response) ==
    TrueDiv10(sensor_response[5] * 256 + sensor_response[6])
Humidity(sensor_response) ==
    TrueDiv10(sensor_response[3] * 256 + sensor_response[4])

\* temperature = (sensor_response[4] * 256 + sensor_response[5])/10
Temperature(sensor_response) ==
    TrueDiv10(sensor_response[5] * 256 + sensor_response[6])

\* `if calc_crc != crc: pass`: the exception this statement raises ("" none)
CrcCheckRaises_OnMismatch(calc_crc, crc) ==
    IF calc_crc # crc THEN "ValueError" ELSE ""
CrcCheckRaises(calc_crc, crc) == ""

\* lines 133-146: the checksum received, the checksum computed and their
\* comparison
CrcCheck_Skipped(sensor_response) ==
    [checked |-> FALSE, calc_crc |-> -1, crc |-> -1, raised |-> ""]
CrcCheck(sensor_response) ==
    LET crc == ReceivedCrc(sensor_response)
        calc_crc == CalcCrc(sensor_response)
    IN  [checked |-> TRUE, calc_crc |-> calc_crc, crc |-> crc,
         raised |-> CrcCheckRaises(calc_crc, crc)]

NoCrcCheck == [checked |-> FALSE, calc_crc |-> -1, crc |-> -1, raised |-> ""]

\* lines 130-134 index sensor_response up to [7]: the exception raised
\* ("" none)
IndexingRaises(sensor_response) ==
    IF Len(sensor_response) < 8 THEN "IndexError" ELSE ""

\* the inner try/except around the wake-up write: the exception that
\* leaves it ("" none) when the write succeeded (ok) or raised
WakeUpRaises_Propagates(ok) == IF ok THEN "" ELSE "OSError"
WakeUpRaises(ok) == ""

\* sensor_add = hex(int(i2c_address, 16)): a str
SensorAdd(i2c_address) == PyStr(PyHex(IntBase16(i2c_address)))

\* s with only its first occurrence of old replaced: s.replace(old, new, 1)
RECURSIVE ReplaceFirst(_, _, _)
ReplaceFirst(s, old, new) ==
    IF s = <<>> THEN <<>>
    ELSE IF StartsWith(s, old)
         THEN new \o SubSeq(s, Len(old) + 1, Len(s))
         ELSE <<Head(s)>> \o ReplaceFirst(Tail(s), old, new)

AssetName_ReplaceFirst(template, i2c_address) ==
    ReplaceFirst(template, <<"%", "M">>, i2c_address)

\* asset_name = '{}'.format(template).replace('%M', i2c_address)
AssetName(template, i2c_address) ==
    PyReplace(template, <<"%", "M">>, i2c_address)

\* one call of the transport as the bus sees it
BusWrite(bus, addr, ok) ==
    [call |-> "write_i2c_block_data", bus |-> bus, addr |-> addr,
     cmd |-> function_code, arg |-> <<start_add, register_number>>, ok |-> ok]
BusRead_RegisterCount(bus, addr, ok) ==
    [call |-> "read_i2c_block_data", bus |-> bus, addr |-> addr,
     cmd |-> function_code, arg |-> <<register_number>>, ok |-> ok]
BusRead(bus, addr, ok) ==
    [call |-> "read_i2c_block_data", bus |-> bus, addr |-> addr,
     cmd |-> function_code, arg |-> <<response_bytes>>, ok |-> ok]

\* the outer try block, lines 119-156: the exception it raises ("" none),
\* the dict it builds and the bus calls it made
PollTry(bus, sensor_add, asset_name, e) ==
    LET wake == BusWrite(bus, sensor_add, e.wake)
        req == BusWrite(bus, sensor_add, e.req)
        read == BusRead(bus, sensor_add, e.read)
        r == e.resp
        Raise(ex, log) == [raised |-> ex, data |-> NoReading, log |-> log,
                           check |-> NoCrcCheck]
    IN  IF WakeUpRaises(e.wake) # ""
        THEN Raise(WakeUpRaises(e.wake), <<wake>>)
        ELSE IF ~e.req
        THEN Raise("OSError", <<wake, req>>)
        ELSE IF ~e.read
        THEN Raise("OSError", <<wake, req, read>>)
        ELSE IF IndexingRaises(r) # ""
        THEN Raise(IndexingRaises(r), <<wake, req, read>>)
        ELSE LET check == CrcCheck(r) IN
        IF check.raised # ""
        THEN [raised |-> check.raised, data |-> NoReading,
              log |-> <<wake, req, read>>, check |-> check]
        ELSE [raised |-> "",
              data |-> [asset |-> asset_name, timestamp |-> e.now,
                        key |-> e.uuid,
                        temperature |-> Temperature(r),
                        humidity |-> Humidity(r)],
              log |-> <<wake, req, read>>, check |-> check]

\* the checksum comparison of the try block, as the outcome records it
WithCheck(o, t) ==
    LET check == t.check
    IN  [o EXCEPT !.crc_checked = check.checked,
                  !.calc_crc = check.calc_crc,
                  !.crc = check.crc]

PollExcept_ReturnsNone(t) ==
    WithCheck(Outcome("poll", "", "", None, "None", NoReading, t.log), t)

PollExcept_NoneOnIndexError(t) ==
    IF t.raised = "IndexError"
    THEN WithCheck(Outcome("poll", "", "", None, "None", NoReading, t.log), t)
    ELSE WithCheck(Outcome("poll", "DataRetrievalError", t.raised, None, "",
                           NoReading, t.log), t)

\* `except (Exception, RuntimeError) as ex`: what leaves plugin_poll when
\* the try block raised ex
PollExcept(t) ==
    WithCheck(Outcome("poll", "DataRetrievalError", t.raised, None, "",
                      NoReading, t.log), t)

\* lines 106-115, before the try block: the exception raised there ("" none)
PollPrologueRaises(h, hd) ==
    IF "bus" \notin DOMAIN h[hd] THEN "KeyError"
    ELSE IF "i2cAddress" \notin DOMAIN h[hd] THEN "KeyError"
    ELSE IF IntBase16Raises(h[h[hd]["i2cAddress"].n]["value"].s) THEN "ValueError"
    ELSE IF "assetName" \notin DOMAIN h[hd] THEN "KeyError"
    ELSE ""

plugin_poll(h, hd, e) ==
    IF PollPrologueRaises(h, hd) # ""
    THEN Outcome("poll", PollPrologueRaises(h, hd), "", None, "", NoReading, <<>>)
    ELSE LET i2c_address == h[h[hd]["i2cAddress"].n]["value"].s
             template == h[h[hd]["assetName"].n]["value"].s
             t == PollTry(h[hd]["bus"].n, SensorAdd(i2c_address),
                          AssetName(template, i2c_address), e)
         IN  IF t.raised # ""
             THEN PollExcept(t)
             ELSE WithCheck(Outcome("poll", "", "", None, "Reading",
                                    t.data, t.log), t)

(***************************************************************************)
(* plugin_reconfigure(handle, new_config)                                  *)
(***************************************************************************)
plugin_reconfigure_Merge(h, hd, ncfg) ==
    LET new_handle == DeepCopy(h, ncfg)
        merged == [k \in (DOMAIN h[hd]) \cup (DOMAIN new_handle.heap[new_handle.ref]) |->
                      IF k \in DOMAIN new_handle.heap[new_handle.ref]
                      THEN new_handle.heap[new_handle.ref][k]
                      ELSE h[hd][k]]
    IN  [heap |-> [new_handle.heap EXCEPT
                      ![new_handle.ref] = SetItem(merged, "restart", PyStr(<<"n", "o">>))],
         out |-> Outcome("reconfigure", "", "", new_handle.ref, "handle",
                         NoReading, <<>>)]

plugin_reconfigure_InPlace(h, hd, ncfg) ==
    [heap |-> [h EXCEPT ![ncfg] = SetItem(@, "restart", PyStr(<<"n", "o">>))],
     out |-> Outcome("reconfigure", "", "", ncfg, "handle", NoReading, <<>>)]

plugin_reconfigure(h, hd, ncfg) ==
    LET new_handle == DeepCopy(h, ncfg)
    IN  [heap |-> [new_handle.heap EXCEPT
                      ![new_handle.ref] = SetItem(@, "restart", PyStr(<<"n", "o">>))],
         out |-> Outcome("reconfigure", "", "", new_handle.ref, "handle",
                         NoReading, <<>>)]

(***************************************************************************)
(* plugin_shutdown(handle): writes a log line and returns                  *)
(***************************************************************************)
plugin_shutdown(h, bs, hd) ==
    [heap |-> h, buses |-> bs,
     out |-> Outcome("shutdown", "", "", None, "None", NoReading, <<>>)]

(***************************************************************************)
(* The host: it initialises the plugin once, then polls and reconfigures,  *)
(* and shuts the plugin down.  The calls never overlap.                    *)
(***************************************************************************)
Init ==
    \E c \in InitCategories :
        LET made == NewCategory(<<>>, c[1], c[2], <<>>)
        IN  /\ heap = made.heap
            /\ config = made.ref
            /\ config_given = Flat(made.heap, made.ref, <<>>)
            /\ buses = <<>>
            /\ handle = None
            /\ old_handle = None
            /\ new_config = None
            /\ new_config_given = {}
            /\ state = "Uninitialized"
            /\ result = NoOutcome
            /\ env = NoEnv
            /\ reconfs = 0

HostInit ==
    /\ state = "Uninitialized"
    /\ \E openOk \in BOOLEAN :
          LET r == plugin_init(heap, buses, config, openOk)
          IN  /\ heap' = r.heap
              /\ buses' = r.buses
              /\ result' = r.out
              /\ handle' = r.out.ret
              /\ state' = IF r.out.raised = "" THEN "Initialized" ELSE state
    /\ env' = NoEnv
    /\ UNCHANGED <<config, config_given, old_handle, new_config,
                   new_config_given, reconfs>>

HostPoll ==
    /\ state \in {"Initialized", "ShutDown"}
    /\ \E e \in Envs :
          /\ result' = plugin_poll(heap, handle, e)
          /\ env' = e
    /\ UNCHANGED <<heap, buses, config, config_given, handle, old_handle,
                   new_config, new_config_given, state, reconfs>>

HostReconfigure ==
    /\ state = "Initialized"
    /\ reconfs < MaxReconf
    /\ \E c \in NewCategories :
          LET made == NewCategory(heap, c[1], c[2], c[3])
              r == plugin_reconfigure(made.heap, handle, made.ref)
          IN  /\ heap' = r.heap
              /\ new_config' = made.ref
              /\ new_config_given' = Flat(made.heap, made.ref, <<>>)
              /\ old_handle' = handle
              /\ handle' = r.out.ret
              /\ result' = r.out
    /\ reconfs' = reconfs + 1
    /\ env' = NoEnv
    /\ UNCHANGED <<buses, config, config_given, state>>

HostShutdown ==
    /\ state = "Initialized"
    /\ LET r == plugin_shutdown(heap, buses, handle)
       IN  /\ heap' = r.heap
           /\ buses' = r.buses
           /\ result' = r.out
    /\ state' = "ShutDown"
    /\ env' = NoEnv
    /\ UNCHANGED <<config, config_given, handle, old_handle, new_config,
                   new_config_given, reconfs>>

Next == HostInit \/ HostPoll \/ HostReconfigure \/ HostShutdown

Spec == Init /\ [][Next]_vars

(***************************************************************************)
(* The CRC-16/MODBUS of the sensor's data sheet, bit by bit: the message   *)
(* bits enter a 16-bit register low bit of each byte first, the register   *)
(* shifts left and is reduced by the polynomial x^16 + x^15 + x^2 + 1      *)
(* (0x8005), it starts at 0xFFFF, and the result is the register with its  *)
(* bits in reverse order.                                                  *)
(***************************************************************************)
\* the register after the n low bits of byte, lowest first
RECURSIVE RefByte(_, _, _)
RefByte(reg, byte, n) ==
    IF n = 0 THEN reg
    ELSE IF (reg \div 32768) # (byte % 2)
         THEN RefByte(BitXor((reg * 2) % 65536, 32773), byte \div 2, n - 1)
         ELSE RefByte((reg * 2) % 65536, byte \div 2, n - 1)

RECURSIVE RefBytes(_, _)
RefBytes(reg, bytes) ==
    IF bytes = <<>> THEN reg
    ELSE RefBytes(RefByte(reg, Head(bytes), 8), Tail(bytes))

RECURSIVE ReverseBits(_, _, _)
ReverseBits(x, n, acc) ==
    IF n = 0 THEN acc ELSE ReverseBits(x \div 2, n - 1, acc * 2 + (x % 2))

RefCrc(bytes) == ReverseBits(RefBytes(65535, bytes), 16, 0)

(***************************************************************************)
(* Polls of one initialised session over a wide set of sensor frames: the  *)
(* session is the one plugin_init returns for the default category, the    *)
(* bus accepts every call, and the frame it will answer is drawn at the    *)
(* start.                                                                  *)
(***************************************************************************)
ByteValues == {0, 129, 255}

\* the six data bytes with the checksum of the sensor (low byte first), as
\* sent or with a damaged low checksum byte
WidePrefixes ==
    { <<b0, b1, b2, b3, b4, b5>> :
         b0 \in ByteValues, b1 \in ByteValues, b2 \in ByteValues,
         b3 \in ByteValues, b4 \in ByteValues, b5 \in ByteValues }

WideFrames ==
    { p \o <<(RefCrc(p) + d) % 256, RefCrc(p) \div 256>> :
         p \in WidePrefixes, d \in {0, 1} }

CrcInit ==
    LET made == NewCategory(<<>>, DefaultAssetName, DefaultI2cAddress, <<>>)
        r == plugin_init(made.heap, <<>>, made.ref, TRUE)
    IN  /\ heap = r.heap
        /\ buses = r.buses
        /\ config = made.ref
        /\ config_given = Flat(made.heap, made.ref, <<>>)
        /\ handle = r.out.ret
        /\ old_handle = None
        /\ new_config = None
        /\ new_config_given = {}
        /\ state = "Initialized"
        /\ result = r.out
        /\ reconfs = 0
        /\ \E f \in WideFrames :
              env = [wake |-> TRUE, req |-> TRUE, read |-> TRUE, resp |-> f,
                     now |-> "t1", uuid |-> "u1"]

CrcPoll ==
    /\ result.op = "init"
    /\ result' = plugin_poll(heap, handle, env)
    /\ UNCHANGED <<heap, buses, config, config_given, handle, old_handle,
                   new_config, new_config_given, state, env, reconfs>>

CrcSpec == CrcInit /\ [][CrcPoll]_vars

(***************************************************************************)
(* Properties.                                                             *)
(***************************************************************************)
\* what the handle the host holds is configured with
HandleAddress == heap[heap[handle]["i2cAddress"].n]["value"].s
HandleTemplate == heap[heap[handle]["assetName"].n]["value"].s

\* the last call was a poll that got as far as the bus
PolledBus == result.op = "poll" /\ Len(result.log) >= 1

\* what the host sees of a poll
Seen(o) == <<o.raised, o.cause, o.returned, o.data>>

\* C1: whenever the data-request write (the second bus write) of a poll
\* fails, the poll raises DataRetrievalError; it returns neither a Reading
\* nor None, whether the wake-up write before it succeeded or failed.
C1_DataRequestFailureRaises ==
    (result.op = "poll" /\ Len(result.log) >= 2 /\ ~result.log[2].ok)
        => /\ result.raised = "DataRetrievalError"
           /\ result.returned = ""
           /\ result.data = NoReading

C1_Witness ==
    /\ result.op = "poll"
    /\ Len(result.log) = 2
    /\ result.log[1].ok
    /\ ~result.log[2].ok
    /\ result.raised = "DataRetrievalError"

\* C2: a failure of the wake-up write is always suppressed: what the poll
\* hands back is the same as with the other outcome of the wake-up write and
\* the same later bus answers; a failed wake-up followed by an accepted
\* data request and a read of 8 bytes gives a Reading.
C2_WakeUpFailureSuppressed ==
    (result.op = "poll") =>
        /\ Seen(plugin_poll(heap, handle, [env EXCEPT !.wake = ~@])) = Seen(result)
        /\ (PolledBus /\ ~env.wake /\ env.req /\ env.read /\ Len(env.resp) = 8)
              => result.returned = "Reading"

C2_Witness ==
    /\ PolledBus
    /\ ~result.log[1].ok
    /\ result.log[2].ok
    /\ result.returned = "Reading"

\* C3: every poll on a handle that holds its transport ends with a Reading
\* or with DataRetrievalError, a malformed i2cAddress included.
C3_EveryFailureIsDataRetrievalError ==
    (result.op = "poll" /\ "bus" \in DOMAIN heap[handle])
        => \/ result.raised = "" /\ result.returned = "Reading"
           \/ result.raised = "DataRetrievalError"

\* C4: a checksum mismatch never changes the outcome of a poll: when the
\* data request and the read succeeded and 8 bytes came back, the poll
\* returns a Reading and raises nothing, and the temperature and humidity
\* are those of the frame with the same first six bytes and the matching
\* checksum.
C4_ChecksumMismatchIgnored ==
    (PolledBus /\ env.req /\ env.read /\ Len(env.resp) = 8) =>
        /\ result.raised = ""
        /\ result.returned = "Reading"
        /\ \A f \in SensorFrames :
              SubSeq(f, 1, 6) = SubSeq(env.resp, 1, 6) =>
                 LET good == plugin_poll(heap, handle, [env EXCEPT !.resp = f])
                 IN  /\ CalcCrc(f) = ReceivedCrc(f)
                     /\ good.returned = "Reading"
                     /\ good.data.temperature = result.data.temperature
                     /\ good.data.humidity = result.data.humidity

C4_Witness ==
    /\ PolledBus
    /\ Len(env.resp) = 8
    /\ CalcCrc(env.resp) # ReceivedCrc(env.resp)
    /\ result.returned = "Reading"

\* C5: plugin_reconfigure returns a handle whose entries are those of
\* new_config plus restart = 'no': nothing of the old handle is carried
\* over (its transport is not), no transport is opened, and restart is 'no'
\* whatever new_config carried.
C5_ReconfigureReplacesHandle ==
    (result.op = "reconfigure") =>
        LET restart == {x \in Flat(heap, new_config, <<>>) : x[1] = <<"restart">>}
        IN  /\ handle = result.ret
            /\ DOMAIN heap[handle] = (DOMAIN heap[new_config]) \cup {"restart"}
            /\ Flat(heap, handle, <<>>) =
                  (Flat(heap, new_config, <<>>) \ restart)
                     \cup {<<<<"restart">>, PyStr(<<"n", "o">>)>>}
            /\ "bus" \notin DOMAIN heap[handle]
            /\ result.opened = 0
            /\ Len(buses) = 1

C5_Witness ==
    /\ result.op = "reconfigure"
    /\ "bus" \in DOMAIN heap[old_handle]
    /\ "restart" \in DOMAIN heap[new_config]
    /\ heap[new_config]["restart"] = PyStr(<<"y", "e", "s">>)
    /\ heap[handle]["restart"] = PyStr(<<"n", "o">>)

\* C6: a poll stays valid after reconfigurations: on the handle returned by
\* the last reconfigure (with a well-formed address), when the bus accepts
\* the data request and answers 8 bytes, the poll returns a Reading.
C6_PollValidAfterReconfigure ==
    (/\ result.op = "poll"
     /\ state = "Initialized"
     /\ reconfs >= 1
     /\ ~IntBase16Raises(HandleAddress)
     /\ env.req /\ env.read /\ Len(env.resp) = 8)
        => result.returned = "Reading"

\* C7: after plugin_shutdown has returned, the transport plugin_init opened
\* is closed.
C7_ShutdownReleasesTransport ==
    (result.op = "shutdown") => \A b \in 1..Len(buses) : buses[b] = "closed"

\* C8: plugin_init makes one attempt to open a transport; on success the
\* handle is a deep copy of config plus the transport under 'bus', it shares
\* no dict with config, and config is as the caller built it; on failure
\* the exception leaves plugin_init and there is no handle.
C8_InitCopiesConfig ==
    /\ Flat(heap, config, <<>>) = config_given
    /\ (result.op = "init" /\ result.raised = "") =>
          /\ result.opened = 1
          /\ buses = <<"open">>
          /\ handle = result.ret
          /\ handle # None
          /\ Flat(heap, handle, <<>>) = config_given \cup {<<<<"bus">>, PyBus(1)>>}
          /\ Reach(heap, handle) \cap Reach(heap, config) = {}
    /\ (result.op = "init" /\ result.raised # "") =>
          /\ result.opened = 1
          /\ buses = <<>>
          /\ handle = None
          /\ result.ret = None
          /\ result.returned = ""

C8_Witness ==
    /\ result.op = "init"
    /\ result.raised = ""
    /\ heap[handle]["bus"] = PyBus(1)
    /\ "bus" \notin DOMAIN heap[config]

\* C9: the Reading of a poll has humidity (b[2]*256 + b[3]) / 10 and
\* temperature (b[4]*256 + b[5]) / 10 for the 8 bytes b read; responses
\* that agree on bytes 2..5 give the same temperature and humidity.
C9_Decoding ==
    (result.op = "poll" /\ result.returned = "Reading") =>
        LET b == env.resp
            hum == result.data.humidity
            tmp == result.data.temperature
        IN  /\ hum.tenth \in 0..9 /\ tmp.tenth \in 0..9
            /\ hum.whole * 10 + hum.tenth = b[3] * 256 + b[4]
            /\ tmp.whole * 10 + tmp.tenth = b[5] * 256 + b[6]
            /\ \A r \in Responses :
                  (Len(r) = 8 /\ SubSeq(r, 3, 6) = SubSeq(b, 3, 6)) =>
                     LET o == plugin_poll(heap, handle, [env EXCEPT !.resp = r])
                     IN  /\ o.data.temperature = tmp
                         /\ o.data.humidity = hum

C9_Witness ==
    /\ result.op = "poll"
    /\ result.returned = "Reading"
    /\ env.resp = <<0, 0, 1, 2, 1, 8, 160, 113>>
    /\ result.data.humidity = [whole |-> 25, tenth |-> 8]
    /\ result.data.temperature = [whole |-> 26, tenth |-> 4]

\* the positions of t where the token %M starts
TokenAt(t) == {i \in 1..(Len(t) - 1) : t[i] = "%" /\ t[i + 1] = "M"}

RECURSIVE Join(_, _, _)
Join(piece, i, n) == IF i > n THEN <<>> ELSE piece[i] \o Join(piece, i + 1, n)

\* t with the token %M replaced by a wherever it stands
EveryTokenReplaced(t, a) ==
    Join([i \in 1..Len(t) |->
             IF i \in TokenAt(t) THEN a
             ELSE IF (i - 1) \in TokenAt(t) THEN <<>>
             ELSE <<t[i]>>], 1, Len(t))

\* C10 as stated: the asset name is the template with exactly one
\* substitution of %M performed.
C10_ExactlyOneSubstitution ==
    (result.op = "poll" /\ result.returned = "Reading") =>
        result.data.asset = ReplaceFirst(HandleTemplate, <<"%", "M">>, HandleAddress)

\* C10: the asset name of the Reading is the assetName template with every
\* occurrence of the token %M replaced by the i2cAddress string as
\* configured; nothing else of the template is altered and a template
\* without %M is returned unchanged.
C10_EveryTokenSubstituted ==
    (result.op = "poll" /\ result.returned = "Reading") =>
        /\ result.data.asset = EveryTokenReplaced(HandleTemplate, HandleAddress)
        /\ (TokenAt(HandleTemplate) = {} => result.data.asset = HandleTemplate)

C10_Witness ==
    /\ result.op = "poll"
    /\ result.returned = "Reading"
    /\ Cardinality(TokenAt(HandleTemplate)) = 2
    /\ result.data.asset = HandleAddress \o HandleAddress

\* C11: when the data request is accepted but the read fails, or the read
\* returns fewer than 8 bytes, the poll raises DataRetrievalError and
\* returns no Reading; no Reading is built from fewer than 8 bytes.
C11_BadReadRaises ==
    /\ (PolledBus /\ env.req /\ (~env.read \/ Len(env.resp) < 8))
          => /\ result.raised = "DataRetrievalError"
             /\ result.cause \in {"OSError", "IndexError"}
             /\ result.returned = ""
             /\ result.data = NoReading
    /\ (result.op = "poll" /\ result.returned = "Reading")
          => env.read /\ Len(env.resp) = 8

C11_Witness ==
    /\ PolledBus
    /\ env.read
    /\ Len(env.resp) = 7
    /\ result.raised = "DataRetrievalError"
    /\ result.cause = "IndexError"

\* C12: the address argument of every bus call of a poll is the device
\* number parsed from the configured hex string (an int, 92 for '0x5C'),
\* not a text.
C12_AddressIsDeviceNumber ==
    PolledBus =>
        \A i \in 1..Len(result.log) :
            /\ result.log[i].addr.t = "int"
            /\ result.log[i].addr.n = IntBase16(HandleAddress)

\* C13: the bus calls of a poll are the wake-up write, the data-request
\* write and the read, in this order and never repeated: two writes with
\* the same command (function code 3, payload [0, 4]) to the same address,
\* then at most one read of 8 bytes, issued only when the data-request
\* write succeeded.
C13_BusCallOrder ==
    (result.op = "poll") =>
        LET log == result.log
        IN  /\ Len(log) \in {0, 2, 3}
            /\ Len(log) >= 2 =>
                  /\ \A i \in {1, 2} :
                        /\ log[i].call = "write_i2c_block_data"
                        /\ log[i].cmd = 3
                        /\ log[i].arg = <<0, 4>>
                  /\ [log[1] EXCEPT !.ok = TRUE] = [log[2] EXCEPT !.ok = TRUE]
                  /\ log[1].ok = env.wake
                  /\ log[2].ok = env.req
                  /\ (Len(log) = 3) = log[2].ok
            /\ Len(log) = 3 =>
                  /\ log[3].call = "read_i2c_block_data"
                  /\ log[3].cmd = 3
                  /\ log[3].arg = <<8>>
                  /\ log[3].addr = log[2].addr
                  /\ log[3].bus = log[2].bus
                  /\ log[3].ok = env.read

C13_Witness ==
    /\ result.op = "poll"
    /\ Len(result.log) = 3
    /\ ~result.log[1].ok
    /\ result.log[2].ok
    /\ result.log[3].call = "read_i2c_block_data"

\* the accumulator of the checksum loops after k bytes and n more shifts
Accumulator(bytes, k, n) ==
    IF n = 0 THEN CrcLoop(65535, SubSeq(bytes, 1, k))
    ELSE CrcShift(BitXor(CrcLoop(65535, SubSeq(bytes, 1, k)), bytes[k + 1]), n)

\* C14: the checksum a poll computes over the first 6 response bytes is the
\* CRC-16/MODBUS of these bytes (0x4B37 for "123456789"), bytes 6 and 7 do
\* not enter it, the accumulator stays within 0..0xFFFF, and it is compared
\* with byte[7]*256 + byte[6], which equals it exactly for the frames that
\* carry the sensor's checksum low byte first.
C14_CrcIsModbus ==
    /\ CrcLoop(65535, <<49, 50, 51, 52, 53, 54, 55, 56, 57>>) = 19255
    /\ (result.op = "poll") =>
          LET r == env.resp
              p == SubSeq(r, 1, 6)
          IN  /\ result.crc_checked
              /\ result.calc_crc = RefCrc(p)
              /\ result.crc = r[8] * 256 + r[7]
              /\ \A k \in 0..5 : \A n \in 0..8 :
                    Accumulator(p, k, n) \in 0..65535
              /\ Accumulator(p, 5, 8) = result.calc_crc
              /\ (result.calc_crc = result.crc)
                    = (r[7] = RefCrc(p) % 256 /\ r[8] = RefCrc(p) \div 256)

C14_Witness ==
    /\ result.op = "poll"
    /\ env.resp = <<129, 0, 255, 129, 0, 255, 62, 118>>
    /\ result.calc_crc = 30270
    /\ result.crc = 30270

\* C15: inverting any single bit of the first 6 bytes of a response changes
\* the checksum the poll computes.
C15_SingleBitFlipChangesCrc ==
    (result.op = "poll" /\ result.crc_checked) =>
        \A k \in 1..6 : \A w \in {1, 2, 4, 8, 16, 32, 64, 128} :
            CalcCrc([env.resp EXCEPT ![k] = FlipBit(@, w)]) # result.calc_crc

C15_Witness ==
    /\ result.op = "poll"
    /\ result.crc_checked
    /\ env.resp[6] = 255
    /\ CalcCrc([env.resp EXCEPT ![6] = 127]) # result.calc_crc

\* C16: every poll that returns a Reading has computed the checksum of the
\* first 6 response bytes and compared it with the received checksum before
\* the Reading was built.
C16_ReadingOnlyAfterCrcCheck ==
    (result.op = "poll" /\ result.returned = "Reading") =>
        /\ result.crc_checked
        /\ result.calc_crc = RefCrc(SubSeq(env.resp, 1, 6))
        /\ result.crc = env.resp[8] * 256 + env.resp[7]

C16_Witness ==
    /\ result.op = "poll"
    /\ result.returned = "Reading"
    /\ result.crc_checked
    /\ result.calc_crc = 33361
    /\ result.crc = 33361

\* the dicts reachable from reference r are the same before and after a step
SameCells(r) == \A c \in Reach(heap, r) : heap'[c] = heap[c]

\* C17: the handle is changed only by reconfiguration and only by
\* replacement: a poll (whatever its outcome) and a shutdown leave the
\* handle and every dict of it as they were; a reconfigure returns another
\* handle that shares no dict with the old handle or with new_config, and
\* leaves the old handle and new_config as they were.
C17_HandleOnlyReplaced ==
    [][ /\ (result'.op \in {"poll", "shutdown"}) =>
              /\ handle' = handle
              /\ SameCells(handle)
        /\ (result'.op = "reconfigure") =>
              /\ handle' # handle
              /\ old_handle' = handle
              /\ SameCells(handle)
              /\ Flat(heap', new_config', <<>>) = new_config_given'
              /\ Reach(heap', handle') \cap
                    (Reach(heap', old_handle') \cup Reach(heap', new_config')) = {}
      ]_vars

C17_Witness ==
    /\ result.op = "reconfigure"
    /\ handle # old_handle
    /\ "bus" \in DOMAIN heap[old_handle]
    /\ "restart" \notin DOMAIN heap[new_config]
    /\ "restart" \in DOMAIN heap[handle]

\* C18: once plugin_shutdown has been called, a later poll on the handle
\* makes no bus call and returns no Reading.
C18_NoPollAfterShutdown ==
    (state = "ShutDown" /\ result.op = "poll") =>
        /\ result.log = <<>>
        /\ result.returned # "Reading"

====
